---- MODULE Spec2Model ----
(***************************************************************************)
(* Model of CollegeAssistantOrchestrator (src/orchestrator.py): the tool   *)
(* registry, the dispatcher _execute_tool, the two-round protocol of       *)
(* process_query and reset_conversation.  The language model and the three *)
(* backend servers are the environment: every answer they can give         *)
(* (text, tool calls, an exception) is a nondeterministic choice.          *)
(***************************************************************************)
EXTENDS Integers, Sequences, FiniteSets, TLC

\* ------------------------------------------------------------- bounds
\* process_query calls in one behaviour
MaxTurns == 2
\* tool calls the model requests in one behaviour, over all its turns
MaxCalls == 2

\* ------------------------------------------------------------- values
\* Python's None
None == "None"

\* user_query values
UserTexts == {"Who works in Engineering?"}
\* message.content of the planning response (nullable)
PlanContents == {None, "Let me look that up."}
\* message.content of the finalization response
FinalContents == {"Here is the answer."}
\* tool_call.id values the model supplies
CallIds == {"call_1", "call_2"}

\* ------------------------------------------------------------- registry
ToolSpec(name, required) ==
    [type |-> "function", function |-> [name |-> name, required |-> required]]

\* variant: one entry of the catalog is listed twice
BuildToolRegistryDuplicate ==
    << ToolSpec("get_employee", <<"employee_id">>),
       ToolSpec("search_employees", <<"name">>),
       ToolSpec("get_employees_by_department", <<"department">>),
       ToolSpec("get_all_employees", <<>>),
       ToolSpec("list_announcements", <<>>),
       ToolSpec("read_announcement", <<"filename">>),
       ToolSpec("search_announcements", <<"keyword">>),
       ToolSpec("search_policies", <<"query">>),
       ToolSpec("search_policies", <<"query">>),
       ToolSpec("list_policies", <<>>) >>

\* _build_tool_registry: the ordered catalog of nine tools
BuildToolRegistry ==
    << ToolSpec("get_employee", <<"employee_id">>),
       ToolSpec("search_employees", <<"name">>),
       ToolSpec("get_employees_by_department", <<"department">>),
       ToolSpec("get_all_employees", <<>>),
       ToolSpec("list_announcements", <<>>),
       ToolSpec("read_announcement", <<"filename">>),
       ToolSpec("search_announcements", <<"keyword">>),
       ToolSpec("search_policies", <<"query">>),
       ToolSpec("list_policies", <<>>) >>

RegistryNames == {BuildToolRegistry[i].function.name : i \in DOMAIN BuildToolRegistry}

\* ------------------------------------------------------------- json
\* json.loads on tool_call.function.arguments: a JSON object gives a dict, any
\* other JSON value parses to a non-dict, text that is not JSON raises.
JsonLoads(s) ==
    CASE s = "{}" ->
           [raised |-> FALSE, kind |-> "dict", map |-> <<>>]
      [] s = "{\"employee_id\": 101}" ->
           [raised |-> FALSE, kind |-> "dict", map |-> [k \in {"employee_id"} |-> "101"]]
      [] s = "{\"department\": \"Engineering\"}" ->
           [raised |-> FALSE, kind |-> "dict", map |-> [k \in {"department"} |-> "Engineering"]]
      [] s = "[]" ->
           [raised |-> FALSE, kind |-> "list", map |-> <<>>]
      [] OTHER ->
           [raised |-> TRUE, kind |-> "JSONDecodeError", map |-> <<>>]

\* json.dumps on a tool result: the dict written out as JSON text
JsonDumps(result) ==
    IF "error" \in DOMAIN result
    THEN "{\"error\": \"" \o result.error \o "\"}"
    ELSE "{\"data\": \"" \o result.data \o "\"}"

\* ------------------------------------------------------------- dispatcher
\* outcome of evaluating an expression: a value, or a raised exception; calls
\* lists the backend operations invoked on the way
Returned(value, calls) == [raised |-> FALSE, value |-> value, exc |-> "", calls |-> calls]
Raised(exc, calls) == [raised |-> TRUE, value |-> [error |-> ""], exc |-> exc, calls |-> calls]

\* arguments[key]: KeyError when the key is missing, TypeError on a non-dict
Subscript(arguments, key) ==
    IF arguments.kind # "dict"
    THEN Raised("list indices must be integers or slices, not str", <<>>)
    ELSE IF key \in DOMAIN arguments.map
         THEN Returned(arguments.map[key], <<>>)
         ELSE Raised("'" \o key \o "'", <<>>)

\* a backend operation of a server: returns structured data or raises
Backend(server, op, args, behaviour) ==
    LET call == [server |-> server, op |-> op, args |-> args]
    IN  IF behaviour = "raises"
        THEN Raised("backend failure", <<call>>)
        ELSE Returned([data |-> op], <<call>>)

\* variant: the parameter's name is handed over instead of its value
ForwardKeyName(server, op, arguments, key, behaviour) ==
    LET a == Subscript(arguments, key)
    IN  IF a.raised THEN a ELSE Backend(server, op, <<key>>, behaviour)

\* server.op(arguments[key])
Forward(server, op, arguments, key, behaviour) ==
    LET a == Subscript(arguments, key)
    IN  IF a.raised THEN a ELSE Backend(server, op, <<a.value>>, behaviour)

\* variant: a name that is not routed raises instead of being reported
UnknownToolRaises(tool_name) == Raised("'" \o tool_name \o "'", <<>>)

\* else: return {"error": f"Unknown tool: {tool_name}"}
UnknownTool(tool_name) == Returned([error |-> "Unknown tool: " \o tool_name], <<>>)

\* the body of the try block of _execute_tool
ExecuteToolTry(tool_name, arguments, behaviour) ==
    IF tool_name = "get_employee"
    THEN Forward("db_server", "get_employee", arguments, "employee_id", behaviour)
    ELSE IF tool_name = "search_employees"
    THEN Forward("db_server", "search_employees", arguments, "name", behaviour)
    ELSE IF tool_name = "get_employees_by_department"
    THEN Forward("db_server", "get_employees_by_department", arguments, "department", behaviour)
    ELSE IF tool_name = "get_all_employees"
    THEN Backend("db_server", "get_all_employees", <<>>, behaviour)
    ELSE IF tool_name = "list_announcements"
    THEN Backend("filesystem_server", "list_announcements", <<>>, behaviour)
    ELSE IF tool_name = "read_announcement"
    THEN Forward("filesystem_server", "read_announcement", arguments, "filename", behaviour)
    ELSE IF tool_name = "search_announcements"
    THEN Forward("filesystem_server", "search_announcements", arguments, "keyword", behaviour)
    ELSE IF tool_name = "search_policies"
    THEN Forward("rag_server", "search_policies", arguments, "query", behaviour)
    ELSE IF tool_name = "list_policies"
    THEN Backend("rag_server", "list_policies", <<>>, behaviour)
    ELSE UnknownTool(tool_name)

\* variant: no except clause, the exception leaves _execute_tool
ExecuteToolNoExcept(r) == r

\* except Exception as e: return {"error": f"Tool execution failed: {str(e)}"}
ExecuteToolExcept(r) ==
    IF r.raised
    THEN Returned([error |-> "Tool execution failed: " \o r.exc], r.calls)
    ELSE r

\* _execute_tool(tool_name, arguments)
ExecuteTool(tool_name, arguments, behaviour) ==
    ExecuteToolExcept(ExecuteToolTry(tool_name, arguments, behaviour))

\* ------------------------------------------------------------- state
VARIABLES
    tools,                 \* self.tools
    conversation_history,  \* self.conversation_history
    pc,                    \* where process_query stands: idle, planning, dispatching, executing, finalizing
    tool_calls,            \* response_message.tool_calls of the running call
    idx,                   \* position of the for loop in tool_calls (1-based)
    function_name,         \* function_name of the loop body
    function_args,         \* function_args of the loop body
    outcome,               \* how the latest operation ended: none, returned, raised, reset
    returned,              \* the value process_query returned
    history0,              \* conversation_history when the running call started
    user_query,            \* the argument of the running call
    events,                \* model requests, dispatches and backend calls of the running call, in order
    turns,                 \* process_query calls made so far
    calls,                 \* tool calls requested so far
    d_pc,                  \* dispatcher harness: input, done
    d_in,                  \* dispatcher harness: (tool_name, arguments, backend behaviour)
    d_out                  \* dispatcher harness: what _execute_tool gave

vars == << tools, conversation_history, pc, tool_calls, idx, function_name, function_args,
           outcome, returned, history0, user_query, events, turns, calls, d_pc, d_in, d_out >>

turnVars == << tools, conversation_history, pc, tool_calls, idx, function_name, function_args,
               outcome, returned, history0, user_query, events, turns, calls >>

harnessVars == << d_pc, d_in, d_out >>

NoArgs == [raised |-> FALSE, kind |-> "dict", map |-> <<>>]
NoInput == [tool_name |-> "", arguments |-> NoArgs, behaviour |-> "returns"]
NoOutput == Returned([error |-> ""], <<>>)

\* ------------------------------------------------------------- turns
Turn(role, content, requested, call_id) ==
    [role |-> role, content |-> content, tool_calls |-> requested, tool_call_id |-> call_id]

UserTurn(text) == Turn("user", text, <<>>, None)
\* variant: the direct answer is stored with `content or ""`
AssistantTurnOrEmpty(content) ==
    [role |-> "assistant", content |-> IF content = None THEN "" ELSE content,
     tool_calls |-> <<>>, tool_call_id |-> None]

AssistantTurn(content) == Turn("assistant", content, <<>>, None)

\* response_message.content or ""
ContentOrEmpty(content) == IF content = None THEN "" ELSE content

\* variant: only the first requested call is recorded
ToolRequestTurnFirstOnly(content, tcs) ==
    Turn("assistant", ContentOrEmpty(content),
         << [id |-> tcs[1].id, type |-> "function",
             function |-> [name |-> tcs[1].function.name,
                           arguments |-> tcs[1].function.arguments]] >>,
         None)

\* variant: the tool name is recorded where the call id belongs
ToolRequestTurnNameAsId(content, tcs) ==
    Turn("assistant", ContentOrEmpty(content),
         [i \in DOMAIN tcs |->
            [id |-> tcs[i].function.name, type |-> "function",
             function |-> [name |-> tcs[i].function.name,
                           arguments |-> tcs[i].function.arguments]]],
         None)

\* the assistant turn that carries the requested calls
ToolRequestTurn(content, tcs) ==
    Turn("assistant", ContentOrEmpty(content),
         [i \in DOMAIN tcs |->
            [id |-> tcs[i].id, type |-> "function",
             function |-> [name |-> tcs[i].function.name,
                           arguments |-> tcs[i].function.arguments]]],
         None)

\* variant: the tool turn is stored without its tool_call_id
ToolTurnNoId(call_id, result) ==
    [role |-> "tool", content |-> JsonDumps(result), tool_calls |-> <<>>,
     tool_call_id |-> None]

ToolTurn(call_id, result) == Turn("tool", JsonDumps(result), <<>>, call_id)

system_message == Turn("system", "You are a helpful and confident HR assistant", <<>>, None)

\* chat.completions.create(messages=[system_message] + history, tools=self.tools, tool_choice="auto")
PlanningRequest(history, registry) ==
    [ev |-> "model_call", round |-> "planning", with_tools |-> TRUE, tools |-> registry,
     messages |-> <<system_message>> \o history]

\* variant: the second request offers the registry again
FinalizationRequestWithTools(history) ==
    [ev |-> "model_call", round |-> "finalization", with_tools |-> TRUE,
     tools |-> BuildToolRegistry, messages |-> <<system_message>> \o history]

\* chat.completions.create(messages=[system_message] + history): no tools
FinalizationRequest(history) ==
    [ev |-> "model_call", round |-> "finalization", with_tools |-> FALSE, tools |-> <<>>,
     messages |-> <<system_message>> \o history]

DispatchEvent(i, call, arguments) ==
    [ev |-> "dispatch", index |-> i, id |-> call.id, name |-> call.function.name,
     arguments |-> arguments]

\* what came back from a model request: a response, or an exception
ResponseEvent(round, content, tcs) ==
    [ev |-> "model_response", round |-> round, content |-> content, tool_calls |-> tcs]

ErrorEvent(round) == [ev |-> "model_error", round |-> round]

BackendEvents(cs) == [i \in DOMAIN cs |-> [ev |-> "backend", call |-> cs[i]]]

\* ------------------------------------------------------------- the model's answers
\* tool_call.function of a requested call: a registered tool with its argument, a
\* tool that does not exist, arguments that are not JSON (a registered tool without
\* its argument is exercised on _execute_tool alone, under DispatchSpec)
FunctionsAsked ==
    { [name |-> "get_employee", arguments |-> "{\"employee_id\": 101}"],
      [name |-> "no_such_tool", arguments |-> "{}"],
      [name |-> "get_employee", arguments |-> "{bad"] }

ToolCallsAsked == [id : CallIds, function : FunctionsAsked]

SeqsUpTo(S, n) == UNION {[1..k -> S] : k \in 0..n}

\* `if not tool_calls`: None and the empty list are both falsy
Falsy(tcs) == ~tcs.present \/ Len(tcs.list) = 0

\* message.tool_calls: None, or a list of at most n calls
ToolCallLists(n) ==
    {[present |-> FALSE, list |-> <<>>]}
        \cup {[present |-> TRUE, list |-> l] : l \in SeqsUpTo(ToolCallsAsked, n)}

\* message.tool_calls of a finalization response: the request offered no tools, and
\* a model may name one all the same
FinalToolCallLists ==
    { [present |-> FALSE, list |-> <<>>],
      [present |-> TRUE,
       list |-> << [id |-> "call_1",
                    function |-> [name |-> "get_employee",
                                  arguments |-> "{\"employee_id\": 101}"]] >>] }

\* ------------------------------------------------------------- process_query
TypeInit ==
    /\ tools = BuildToolRegistry
    /\ conversation_history = <<>>
    /\ pc = "idle"
    /\ tool_calls = <<>>
    /\ idx = 0
    /\ function_name = ""
    /\ function_args = NoArgs
    /\ outcome = "none"
    /\ returned = None
    /\ history0 = <<>>
    /\ user_query = ""
    /\ events = <<>>
    /\ turns = 0
    /\ calls = 0

\* __init__: registry built, history empty
Init ==
    /\ TypeInit
    /\ d_pc = "off"
    /\ d_in = NoInput
    /\ d_out = NoOutput

\* variant: every call starts a fresh history that holds the new user turn only
ProcessQueryFreshHistory(text) ==
    /\ pc = "idle"
    /\ turns < MaxTurns
    /\ conversation_history' = << UserTurn(text) >>
    /\ events' = << PlanningRequest(conversation_history', tools) >>
    /\ pc' = "planning"
    /\ history0' = conversation_history
    /\ user_query' = text
    /\ outcome' = "none"
    /\ returned' = None
    /\ tool_calls' = <<>>
    /\ idx' = 0
    /\ function_name' = ""
    /\ function_args' = NoArgs
    /\ turns' = turns + 1
    /\ UNCHANGED << tools, calls >>
    /\ UNCHANGED harnessVars

\* process_query is entered: the user turn is appended and the planning request sent
ProcessQuery(text) ==
    /\ pc = "idle"
    /\ turns < MaxTurns
    /\ conversation_history' = Append(conversation_history, UserTurn(text))
    /\ events' = << PlanningRequest(conversation_history', tools) >>
    /\ pc' = "planning"
    /\ history0' = conversation_history
    /\ user_query' = text
    /\ outcome' = "none"
    /\ returned' = None
    /\ tool_calls' = <<>>
    /\ idx' = 0
    /\ function_name' = ""
    /\ function_args' = NoArgs
    /\ turns' = turns + 1
    /\ UNCHANGED << tools, calls >>
    /\ UNCHANGED harnessVars

\* the exception leaves process_query: nothing is caught in it
Propagate ==
    /\ pc' = "idle"
    /\ outcome' = "raised"
    /\ returned' = None

\* variant: the user turn is taken back when the planning request fails
PlanningFailsRollsBack ==
    /\ pc = "planning"
    /\ Propagate
    /\ conversation_history' = history0
    /\ events' = Append(events, ErrorEvent("planning"))
    /\ UNCHANGED << tools, tool_calls, idx, function_name, function_args, history0,
                    user_query, turns, calls >>
    /\ UNCHANGED harnessVars

\* the planning request fails, or its response has no choices[0].message
PlanningFails ==
    /\ pc = "planning"
    /\ Propagate
    /\ events' = Append(events, ErrorEvent("planning"))
    /\ UNCHANGED << tools, conversation_history, tool_calls, idx, function_name,
                    function_args, history0, user_query, turns, calls >>
    /\ UNCHANGED harnessVars

\* the planning response arrives: answer directly, or record the requested calls
PlanningResponds(content, tcs) ==
    /\ pc = "planning"
    /\ IF Falsy(tcs)
       THEN /\ conversation_history' = Append(conversation_history, AssistantTurn(content))
            /\ returned' = content
            /\ outcome' = "returned"
            /\ pc' = "idle"
            /\ UNCHANGED << tool_calls, idx, calls >>
       ELSE /\ conversation_history' =
                   Append(conversation_history, ToolRequestTurn(content, tcs.list))
            /\ tool_calls' = tcs.list
            /\ idx' = 1
            /\ calls' = calls + Len(tcs.list)
            /\ pc' = "dispatching"
            /\ UNCHANGED << returned, outcome >>
    /\ events' = Append(events, ResponseEvent("planning", content, tcs))
    /\ UNCHANGED << tools, function_name, function_args, history0, user_query, turns >>
    /\ UNCHANGED harnessVars

\* top of the loop body: the arguments are parsed, then _execute_tool is entered
DispatchCall ==
    /\ pc = "dispatching"
    /\ idx <= Len(tool_calls)
    /\ LET tool_call == tool_calls[idx]
           parsed == JsonLoads(tool_call.function.arguments)
       IN  IF parsed.raised
           THEN /\ Propagate
                /\ UNCHANGED << function_name, function_args, events >>
           ELSE /\ function_name' = tool_call.function.name
                /\ function_args' = parsed
                /\ events' = Append(events, DispatchEvent(idx, tool_call, parsed))
                /\ pc' = "executing"
                /\ UNCHANGED << outcome, returned >>
    /\ UNCHANGED << tools, conversation_history, tool_calls, idx, history0, user_query,
                    turns, calls >>
    /\ UNCHANGED harnessVars

\* variant: the loop moves on and the result is not appended
ToolReturnsDeferred(behaviour) ==
    /\ pc = "executing"
    /\ LET r == ExecuteTool(function_name, function_args, behaviour)
       IN  events' = events \o BackendEvents(r.calls)
    /\ idx' = idx + 1
    /\ pc' = "dispatching"
    /\ UNCHANGED << tools, conversation_history, tool_calls, function_name, function_args,
                    outcome, returned, history0, user_query, turns, calls >>
    /\ UNCHANGED harnessVars

\* _execute_tool comes back and the tool turn is appended
ToolReturns(behaviour) ==
    /\ pc = "executing"
    /\ LET r == ExecuteTool(function_name, function_args, behaviour)
       IN  /\ events' = events \o BackendEvents(r.calls)
           /\ IF r.raised
              THEN /\ Propagate
                   /\ UNCHANGED << conversation_history, idx >>
              ELSE /\ conversation_history' =
                          Append(conversation_history, ToolTurn(tool_calls[idx].id, r.value))
                   /\ idx' = idx + 1
                   /\ pc' = "dispatching"
                   /\ UNCHANGED << outcome, returned >>
    /\ UNCHANGED << tools, tool_calls, function_name, function_args, history0, user_query,
                    turns, calls >>
    /\ UNCHANGED harnessVars

\* the loop is over: the finalization request is sent
IssueFinalization ==
    /\ pc = "dispatching"
    /\ idx > Len(tool_calls)
    /\ events' = Append(events, FinalizationRequest(conversation_history))
    /\ pc' = "finalizing"
    /\ UNCHANGED << tools, conversation_history, tool_calls, idx, function_name,
                    function_args, outcome, returned, history0, user_query, turns, calls >>
    /\ UNCHANGED harnessVars

\* variant: the turn is rolled back when the finalization request fails
FinalizationFailsRollsBack ==
    /\ pc = "finalizing"
    /\ Propagate
    /\ conversation_history' = history0
    /\ events' = Append(events, ErrorEvent("finalization"))
    /\ UNCHANGED << tools, tool_calls, idx, function_name, function_args, history0,
                    user_query, turns, calls >>
    /\ UNCHANGED harnessVars

\* the finalization request fails, or its response has no choices[0].message
FinalizationFails ==
    /\ pc = "finalizing"
    /\ Propagate
    /\ events' = Append(events, ErrorEvent("finalization"))
    /\ UNCHANGED << tools, conversation_history, tool_calls, idx, function_name,
                    function_args, history0, user_query, turns, calls >>
    /\ UNCHANGED harnessVars

\* variant: the final text is returned and never appended
FinalizationRespondsNoAppend(content, tcs) ==
    /\ pc = "finalizing"
    /\ returned' = content
    /\ outcome' = "returned"
    /\ pc' = "idle"
    /\ events' = Append(events, ResponseEvent("finalization", content, tcs))
    /\ UNCHANGED << tools, conversation_history, tool_calls, idx, function_name,
                    function_args, history0, user_query, turns, calls >>
    /\ UNCHANGED harnessVars

\* the finalization response arrives: only its content is read
FinalizationResponds(content, tcs) ==
    /\ pc = "finalizing"
    /\ conversation_history' = Append(conversation_history, AssistantTurn(content))
    /\ returned' = content
    /\ outcome' = "returned"
    /\ pc' = "idle"
    /\ events' = Append(events, ResponseEvent("finalization", content, tcs))
    /\ UNCHANGED << tools, tool_calls, idx, function_name, function_args, history0,
                    user_query, turns, calls >>
    /\ UNCHANGED harnessVars

\* variant: reset_conversation reports the reset and clears nothing
ResetConversationClearsNothing ==
    /\ pc = "idle"
    /\ outcome' = "reset"
    /\ UNCHANGED << tools, conversation_history, pc, tool_calls, idx, function_name,
                    function_args, returned, history0, user_query, events, turns, calls >>
    /\ UNCHANGED harnessVars

\* reset_conversation
ResetConversation ==
    /\ pc = "idle"
    /\ conversation_history' = <<>>
    /\ outcome' = "reset"
    /\ UNCHANGED << tools, pc, tool_calls, idx, function_name, function_args, returned,
                    history0, user_query, events, turns, calls >>
    /\ UNCHANGED harnessVars

Next ==
    \/ \E text \in UserTexts : ProcessQuery(text)
    \/ PlanningFails
    \/ \E content \in PlanContents, tcs \in ToolCallLists(MaxCalls - calls) :
           PlanningResponds(content, tcs)
    \/ DispatchCall
    \/ \E behaviour \in {"returns", "raises"} : ToolReturns(behaviour)
    \/ IssueFinalization
    \/ FinalizationFails
    \/ \E content \in FinalContents, tcs \in FinalToolCallLists :
           FinalizationResponds(content, tcs)
    \/ ResetConversation

Spec == Init /\ [][Next]_vars

\* ------------------------------------------------------------- _execute_tool alone
ParamNames == {"employee_id", "name", "department", "filename", "keyword", "query"}

\* tool names handed to _execute_tool: the registry's, and names that are not in it
DispatchNames == RegistryNames \cup {"no_such_tool", "Get_Employee", ""}

\* argument bags: dicts holding no key, one key, every key, and a parsed non-dict
DispatchArguments ==
    { [raised |-> FALSE, kind |-> "dict", map |-> [k \in S |-> k \o "_value"]] :
          S \in {{}} \cup {{k} : k \in ParamNames} \cup {ParamNames} }
        \cup { [raised |-> FALSE, kind |-> "list", map |-> <<>>] }

DispatchInit ==
    /\ TypeInit
    /\ d_pc = "input"
    /\ d_in \in [tool_name : DispatchNames, arguments : DispatchArguments,
                  behaviour : {"returns", "raises"}]
    /\ d_out = NoOutput

\* await self._execute_tool(tool_name, arguments)
Dispatch ==
    /\ d_pc = "input"
    /\ d_out' = ExecuteTool(d_in.tool_name, d_in.arguments, d_in.behaviour)
    /\ d_pc' = "done"
    /\ UNCHANGED d_in
    /\ UNCHANGED turnVars

DispatchNext == Dispatch

DispatchSpec == DispatchInit /\ [][DispatchNext]_vars


\* ------------------------------------------------------------- properties
Last(q) == q[Len(q)]
Base == Len(history0)
EventsOf(kind) == {i \in DOMAIN events : events[i].ev = kind}

\* the planning response of the latest call, when it has arrived
\* (the planning request is the first event of a call, its response the second)
PlanningAnswered ==
    /\ Len(events) >= 2
    /\ events[2].ev = "model_response"
    /\ events[2].round = "planning"
PlanningResponse == events[2]
Requested == PlanningResponse.tool_calls.list

\* the latest operation is a process_query whose planning response asked for no tool
DirectRound == outcome # "reset" /\ PlanningAnswered /\ Falsy(PlanningResponse.tool_calls)
\* ... asked for at least one tool
ToolRound == outcome # "reset" /\ PlanningAnswered /\ ~Falsy(PlanningResponse.tool_calls)
\* ... and that call has returned to its caller
ToolCallCompleted == ToolRound /\ pc = "idle" /\ outcome = "returned"
\* the latest call has ended, by a return or by an exception
TurnEnded == pc = "idle" /\ outcome \in {"returned", "raised"}

FinalizationIssued ==
    \E i \in EventsOf("model_call") : events[i].round = "finalization"

\* C1: a call whose planning response requests no tool (tool_calls None or empty)
\* returns, leaves the prior history in place and appends exactly two turns, the user
\* turn with the given text and an assistant turn, and returns that turn's content.
C1_DirectAnswerGrowsByTwo ==
    DirectRound =>
        /\ pc = "idle"
        /\ outcome = "returned"
        /\ Len(conversation_history) = Base + 2
        /\ SubSeq(conversation_history, 1, Base) = history0
        /\ conversation_history[Base + 1] = UserTurn(user_query)
        /\ conversation_history[Base + 2].role = "assistant"
        /\ conversation_history[Base + 2].tool_calls = <<>>
        /\ conversation_history[Base + 2].content = PlanningResponse.content
        /\ returned = conversation_history[Base + 2].content

C1_Witness ==
    /\ DirectRound
    /\ history0 # <<>>
    /\ PlanningResponse.content = None

\* C2 as stated: a completed call whose planning response requests n >= 1 tool calls
\* grows the history by exactly 2 + n entries.
C2_GrowsByTwoPlusN ==
    ToolCallCompleted => Len(conversation_history) = Base + 2 + Len(Requested)

\* C2 amended: a completed call whose planning response requests n >= 1 tool calls
\* grows the history by exactly 3 + n entries: the user turn, the assistant turn
\* carrying the n requested calls, n tool-result turns, the final assistant turn.
C2_GrowsByThreePlusN ==
    ToolCallCompleted =>
        LET n == Len(Requested)
        IN  /\ n >= 1
            /\ Len(conversation_history) = Base + 3 + n
            /\ SubSeq(conversation_history, 1, Base) = history0
            /\ conversation_history[Base + 1].role = "user"
            /\ conversation_history[Base + 2].role = "assistant"
            /\ Len(conversation_history[Base + 2].tool_calls) = n
            /\ \A i \in 1..n : conversation_history[Base + 2 + i].role = "tool"
            /\ conversation_history[Base + 3 + n].role = "assistant"
            /\ conversation_history[Base + 3 + n].tool_calls = <<>>

C2_Witness ==
    /\ ToolCallCompleted
    /\ Len(Requested) = 2

\* C3: a completed call whose planning response requests exactly one tool call grows
\* the history by 4; the last entry is an assistant turn holding the text of the
\* finalization response, and that text is what the call returns.
C3_OneCallGrowsByFour ==
    (ToolCallCompleted /\ Len(Requested) = 1) =>
        /\ Len(conversation_history) = Base + 4
        /\ Last(events).ev = "model_response"
        /\ Last(events).round = "finalization"
        /\ Last(conversation_history) = AssistantTurn(Last(events).content)
        /\ returned = Last(events).content

C3_Witness ==
    /\ ToolCallCompleted
    /\ Len(Requested) = 1
    /\ \E i \in EventsOf("backend") : events[i].call.op = "get_employee"

\* C4: when the serialized arguments of a requested call cannot be parsed, the call
\* that has ended did not end on that failure: every requested call has its
\* tool-result turn, the unparsable one an error payload under its call_id, and the
\* finalization request was issued.
C4_ParseFailureIsDispatchError ==
    (ToolRound /\ TurnEnded
        /\ \E i \in DOMAIN Requested : JsonLoads(Requested[i].function.arguments).raised) =>
        /\ FinalizationIssued
        /\ Len(conversation_history) >= Base + 2 + Len(Requested)
        /\ \A i \in DOMAIN Requested :
               /\ conversation_history[Base + 2 + i].role = "tool"
               /\ conversation_history[Base + 2 + i].tool_call_id = Requested[i].id

\* C5: a call whose planning response requests at least one tool call does not end
\* before the finalization request is issued, whatever fails while the requested
\* calls are executed.
C5_FinalizationAlwaysIssued ==
    (ToolRound /\ TurnEnded) => FinalizationIssued

\* C6: _execute_tool returns for every tool name, argument bag and backend behaviour:
\* it never lets an exception out, and a failure raised by a backend (or by reading a
\* missing argument) comes back as a payload {error: <message>}.
C6_ExecuteToolTotal ==
    d_pc = "done" =>
        /\ ~d_out.raised
        /\ (d_in.behaviour = "raises" /\ d_out.calls # <<>>) =>
               d_out.value = [error |-> "Tool execution failed: backend failure"]
        /\ (d_in.tool_name \in RegistryNames /\ d_out.calls = <<>>) =>
               DOMAIN d_out.value = {"error"}

C6_Witness ==
    /\ d_pc = "done"
    /\ d_in.behaviour = "raises"
    /\ d_out.calls # <<>>
    /\ d_in.tool_name = "search_policies"

\* C7: for a tool name that is not in the registry _execute_tool raises nothing, calls
\* no backend and returns the payload {error: "Unknown tool: <name>"}, whatever the
\* arguments are.
C7_UnknownToolReported ==
    (d_pc = "done" /\ d_in.tool_name \notin RegistryNames) =>
        /\ ~d_out.raised
        /\ d_out.calls = <<>>
        /\ d_out.value = [error |-> "Unknown tool: " \o d_in.tool_name]

C7_Witness ==
    /\ d_pc = "done"
    /\ d_in.tool_name = "Get_Employee"
    /\ d_in.arguments.kind = "list"
    /\ d_in.behaviour = "raises"

\* C8: when the planning request fails the failure reaches the caller, one model
\* request was made, no tool was dispatched, and the history is the prior history
\* plus the one user turn.
C8_PlanningFailurePropagates ==
    (outcome # "reset" /\ events # <<>> /\ Last(events) = ErrorEvent("planning")) =>
        /\ pc = "idle"
        /\ outcome = "raised"
        /\ Cardinality(EventsOf("model_call")) = 1
        /\ EventsOf("dispatch") = {}
        /\ EventsOf("backend") = {}
        /\ conversation_history = Append(history0, UserTurn(user_query))

C8_Witness ==
    /\ outcome = "raised"
    /\ Last(events) = ErrorEvent("planning")
    /\ history0 # <<>>

\* C9: when the finalization request fails after the n requested calls were executed,
\* the failure reaches the caller and nothing is rolled back: the prior history, the
\* user turn, the assistant tool-request turn and the n tool-result turns are in the
\* history in that order, and no final assistant turn follows.
C9_FinalizationFailureKeepsTurns ==
    (outcome # "reset" /\ events # <<>> /\ Last(events) = ErrorEvent("finalization")) =>
        LET n == Len(Requested)
        IN  /\ pc = "idle"
            /\ outcome = "raised"
            /\ Len(conversation_history) = Base + 2 + n
            /\ SubSeq(conversation_history, 1, Base) = history0
            /\ conversation_history[Base + 1] = UserTurn(user_query)
            /\ conversation_history[Base + 2] =
                   ToolRequestTurn(PlanningResponse.content, Requested)
            /\ \A i \in 1..n :
                   /\ conversation_history[Base + 2 + i].role = "tool"
                   /\ conversation_history[Base + 2 + i].tool_call_id = Requested[i].id
            /\ Cardinality(EventsOf("dispatch")) = n

C9_Witness ==
    /\ outcome = "raised"
    /\ Last(events) = ErrorEvent("finalization")
    /\ Len(Requested) = 2

\* C10: one call of process_query makes at most two model requests, only the first
\* offers the tool registry, at most one assistant turn with requested calls is
\* appended, and nothing is dispatched once the finalization request is issued, even
\* when the finalization response names tool calls.
C10_OneToolRound ==
    /\ Cardinality(EventsOf("model_call")) <= 2
    /\ \A i \in EventsOf("model_call") : events[i].with_tools <=> (i = 1)
    /\ \A i \in EventsOf("model_call") : events[i].with_tools <=> (events[i].tools = tools)
    /\ Cardinality({ j \in (Base + 1)..Len(conversation_history) :
                       /\ conversation_history[j].role = "assistant"
                       /\ conversation_history[j].tool_calls # <<>> }) <= 1
    /\ \A i \in EventsOf("model_call") :
           events[i].round = "finalization" =>
               \A j \in DOMAIN events : j > i => events[j].ev \notin {"dispatch", "backend"}

C10_Witness ==
    /\ ToolCallCompleted
    /\ Last(events).round = "finalization"
    /\ Last(events).tool_calls.present
    /\ Len(Last(events).tool_calls.list) > 0

\* C11: in a completed tool-using call whose planning response requests c1..cn, the
\* n tool-result turns after the assistant tool-request turn carry id(c1)..id(cn) in
\* that order, each equal to the id the model supplied and to the id recorded at the
\* same position of the assistant turn's requested calls.
C11_ResultsEchoIdsInOrder ==
    ToolCallCompleted =>
        \A i \in DOMAIN Requested :
            /\ conversation_history[Base + 2 + i].role = "tool"
            /\ conversation_history[Base + 2 + i].tool_call_id = Requested[i].id
            /\ conversation_history[Base + 2].tool_calls[i].id = Requested[i].id

C11_Witness ==
    /\ ToolCallCompleted
    /\ Len(Requested) = 2
    /\ Requested[1].id = "call_2"
    /\ Requested[2].id = "call_1"

\* positions of the history that hold a tool-result turn
ToolTurnsAt == {j \in DOMAIN conversation_history : conversation_history[j].role = "tool"}

\* the requested-call entries of the history: (assistant turn a, position i)
RequestEntries ==
    UNION { { <<a, i>> : i \in DOMAIN conversation_history[a].tool_calls } :
                a \in DOMAIN conversation_history }

IdAt(x) == conversation_history[x[1]].tool_calls[x[2]].id

\* the requested-call entries that precede position j and carry the id call_id
MatchesBefore(j, call_id) ==
    { x \in RequestEntries : x[1] < j /\ IdAt(x) = call_id }

\* assistant turns before position j
AssistantsBefore(j) ==
    {a \in 1..(j - 1) : conversation_history[a].role = "assistant"}

\* the assistant tool-request turn that the tool-result turn at j answers: the
\* nearest assistant turn before j
RequestFor(j) ==
    CHOOSE a \in AssistantsBefore(j) : \A b \in AssistantsBefore(j) : b <= a

\* every requested call id of the history is supplied once only
IdsDistinct ==
    \A x, y \in RequestEntries : IdAt(x) = IdAt(y) => x = y

\* C12 as stated: in every reachable history, whatever ids the model supplies, every
\* tool-result turn's call_id matches exactly one requested-call entry of an assistant
\* turn that precedes it.
C12_ResultMatchesExactlyOneRequest ==
    \A j \in ToolTurnsAt :
        Cardinality(MatchesBefore(j, conversation_history[j].tool_call_id)) = 1

\* C12 amended: in every reachable history every tool-result turn answers the
\* nearest preceding assistant tool-request turn: the k-th tool-result turn after it
\* carries the id of its k-th requested call, so results follow the request order and
\* each matches at least one preceding entry; it matches exactly one when the ids the
\* model supplied are pairwise distinct.
C12_ResultMatchesRequestAtItsPosition ==
    \A j \in ToolTurnsAt :
        /\ AssistantsBefore(j) # {}
        /\ LET a == RequestFor(j)
           IN  /\ \A k \in (a + 1)..j : conversation_history[k].role = "tool"
               /\ j - a \in DOMAIN conversation_history[a].tool_calls
               /\ conversation_history[j].tool_call_id =
                      conversation_history[a].tool_calls[j - a].id
        /\ LET matches == MatchesBefore(j, conversation_history[j].tool_call_id)
           IN  /\ matches # {}
               /\ IdsDistinct => Cardinality(matches) = 1

C12_Witness ==
    /\ IdsDistinct
    /\ Cardinality(ToolTurnsAt) = 2
    /\ pc = "idle"
    /\ outcome = "raised"
    /\ history0 # <<>>

IsPrefix(p, q) == Len(p) <= Len(q) /\ SubSeq(q, 1, Len(p)) = p

\* C13: the history is append-only: every step of process_query, on success and on
\* failure alike, leaves the previous history as a prefix of the new one; the only
\* step that removes turns is reset_conversation.
C13_HistoryAppendOnly ==
    [][IsPrefix(conversation_history, conversation_history') \/ ResetConversation]_vars

C13_Witness ==
    /\ pc = "idle"
    /\ outcome = "raised"
    /\ history0 # <<>>
    /\ Len(conversation_history) > Base + 1
    /\ IsPrefix(history0, conversation_history)

\* C14: after reset_conversation the history is the empty sequence, whatever turns,
\* failures and resets came before, and the process_query that follows sends the
\* model the system instruction and the new user turn only.
C14_ResetEmptiesHistory ==
    /\ [](outcome = "reset" => conversation_history = <<>>)
    /\ [][(outcome = "reset" /\ pc' = "planning") =>
              /\ Len(events') = 1
              /\ events'[1].ev = "model_call"
              /\ events'[1].messages = << system_message, UserTurn(user_query') >>]_vars

C14_Witness ==
    /\ pc = "planning"
    /\ turns = 2
    /\ history0 = <<>>
    /\ conversation_history = << UserTurn(user_query) >>

\* C15: the tool registry is fixed after construction: in every state reached by
\* process_query, _execute_tool and reset_conversation it is the catalog that was
\* built, in the same order, and no two of its entries share a name.
C15_RegistryFixed ==
    /\ tools = BuildToolRegistry
    /\ \A i, j \in DOMAIN tools :
           tools[i].function.name = tools[j].function.name => i = j

C15_Witness ==
    /\ outcome = "reset"
    /\ turns = 2
    /\ EventsOf("backend") # {}
    /\ tools = BuildToolRegistry

IsDispatch(e) == e.ev = "dispatch"

\* tool-result turns the running call has appended
ResultsAppended ==
    Cardinality({ j \in (Base + 3)..Len(conversation_history) :
                    conversation_history[j].role = "tool" })

\* C16: within one call the requested calls are dispatched in request order and one
\* at a time: the k-th dispatch is that of the k-th requested call, it starts after
\* the assistant tool-request turn and the k - 1 earlier tool-result turns were
\* appended, and at most one dispatch is in flight.
C16_DispatchInOrderOneAtATime ==
    outcome # "reset" =>
        LET ds == SelectSeq(events, IsDispatch)
        IN  /\ Len(ds) > 0 =>
                /\ PlanningAnswered
                /\ Len(conversation_history) >= Base + 2
                /\ conversation_history[Base + 2] =
                       ToolRequestTurn(PlanningResponse.content, Requested)
            /\ \A k \in DOMAIN ds :
                   /\ ds[k].index = k
                   /\ ds[k].id = Requested[k].id
                   /\ ds[k].name = Requested[k].function.name
            /\ Len(ds) - ResultsAppended \in {0, 1}
            /\ (Len(ds) - ResultsAppended = 1) <=> (pc = "executing")

C16_Witness ==
    /\ pc = "executing"
    /\ idx = 2
    /\ Len(conversation_history) = Base + 3
    /\ Len(SelectSeq(events, IsDispatch)) = 2

\* every assistant tool-request turn of msgs is followed by one tool-result turn for
\* each of its requested calls, and by no further one
AllCallsAnswered(msgs) ==
    \A a \in DOMAIN msgs :
        (msgs[a].role = "assistant" /\ msgs[a].tool_calls # <<>>) =>
            LET n == Len(msgs[a].tool_calls)
            IN  /\ \A i \in 1..n :
                       /\ a + i \in DOMAIN msgs
                       /\ msgs[a + i].role = "tool"
                       /\ msgs[a + i].tool_call_id = msgs[a].tool_calls[i].id
                /\ (a + n + 1 \in DOMAIN msgs) => msgs[a + n + 1].role # "tool"

\* C17: every model request, planning or finalization, in any call after any earlier
\* completed and failed calls, carries a history in which every assistant turn with
\* requested calls is followed by exactly one tool-result turn for each of them.
C17_RequestsCarryAnsweredCalls ==
    \A i \in EventsOf("model_call") : AllCallsAnswered(events[i].messages)

\* the registry entry of a name
EntryOf(name) ==
    tools[CHOOSE i \in DOMAIN tools : tools[i].function.name = name]

\* C18: the dispatcher and the registry agree on the tool names: _execute_tool gives
\* the "Unknown tool" error exactly for the names that no registry entry has, and a
\* registry name whose required parameters are in the arguments is forwarded to one
\* backend operation, of that name, with the values of those parameters unchanged.
C18_DispatcherAgreesWithRegistry ==
    d_pc = "done" =>
        LET known == \E i \in DOMAIN tools : tools[i].function.name = d_in.tool_name
        IN  /\ (d_out.value = [error |-> "Unknown tool: " \o d_in.tool_name]) <=> ~known
            /\ known =>
                 LET required == EntryOf(d_in.tool_name).function.required
                 IN  (/\ d_in.arguments.kind = "dict"
                      /\ \A k \in DOMAIN required :
                             required[k] \in DOMAIN d_in.arguments.map) =>
                         /\ Len(d_out.calls) = 1
                         /\ d_out.calls[1].op = d_in.tool_name
                         /\ d_out.calls[1].args =
                                [k \in DOMAIN required |-> d_in.arguments.map[required[k]]]

C18_Witness ==
    /\ d_pc = "done"
    /\ d_in.tool_name = "read_announcement"
    /\ d_in.arguments.kind = "dict"
    /\ DOMAIN d_in.arguments.map = ParamNames
    /\ d_out.value = [data |-> "read_announcement"]
    /\ d_out.calls[1].args = << "filename_value" >>

====
